---- MODULE Spec2Model ----
(***************************************************************************)
(* A model of nodes-common: the StartedServices readiness registry, the    *)
(* /health handler built on it, and the shutdown task spawned by           *)
(* spawn_shutdown_task together with its CancellationToken and graceful    *)
(* flag.                                                                   *)
(*                                                                         *)
(* Atomics are accessed with Ordering::Relaxed; every access is to a       *)
(* single location, so each load and each store is one atomic step and     *)
(* the interleaving of those steps is what the model explores. The Mutex   *)
(* of the registry is a lock variable; the Vec it guards is only read or   *)
(* written by the thread holding it.                                       *)
(***************************************************************************)
EXTENDS Integers, Sequences, FiniteSets, TLC

\* ---------------------------------------------------------------------
\* Bounds of the model
\* ---------------------------------------------------------------------

\* the most calls of new_service() made in one behaviour
MaxServices == 3

\* the most manual calls of cancel() made in one behaviour
MaxCancels == 2

\* the threads (async tasks) that call into the registry
Threads == {"t1", "t2"}

\* the StartedServices values a program holds: h1 is the value built at
\* start-up, h2 is either a clone of it or a second StartedServices::new()
Handles == {"h1", "h2"}

\* the components that hold a clone of the CancellationToken
Holders == {"a", "b"}

\* the registries (Arc<Mutex<Vec<..>>> allocations) that can exist
Registries == {1, 2}

\* ---------------------------------------------------------------------
\* State
\* ---------------------------------------------------------------------

VARIABLES
    \* readiness registry
    external_service, \* registry -> the Vec<Arc<AtomicBool>> behind its Mutex
    lock,             \* registry -> the thread holding its Mutex, or "free"
    flags,            \* the AtomicBools allocated so far, by allocation index
    issued,           \* the flags whose new_service() call has returned
    handle,           \* StartedServices value -> its registry, 0 while unset
    pc,               \* thread -> its position
    treg,             \* thread -> the registry of the call it is in
    idx,              \* thread -> the position of its iterator in the Vec
    ret,              \* thread -> what its last all_started() returned
    resp,             \* thread -> what its last /health request answered
    \* shutdown task
    sig,              \* the shutdown_signal future: "pending" or "ready"
    lpc,              \* the spawned task's position
    branch,           \* the select! arm the spawned task took
    cancelled,        \* the state of the CancellationToken (all clones)
    is_graceful,      \* the Arc<AtomicBool> returned with the token
    cancelledBy,      \* whose cancel() call cancelled the token
    firedFirst,       \* the signal became ready before any manual cancel()
    manualCalls,      \* the number of manual cancel() calls made
    obs,              \* holder -> what its last is_cancelled() returned
    \* default_shutdown_signal
    ctrl_c,           \* Ctrl+C was delivered to the installed listener
    sigterm,          \* SIGTERM was delivered to the process
    unix              \* the build is for a unix target (cfg(unix))

regVars == <<external_service, lock, flags, issued, handle, pc, treg, idx, ret, resp>>

shutVars == <<sig, lpc, branch, cancelled, is_graceful, cancelledBy, firedFirst,
              manualCalls, obs>>

osVars == <<ctrl_c, sigterm, unix>>

vars == <<external_service, lock, flags, issued, handle, pc, treg, idx, ret, resp,
          sig, lpc, branch, cancelled, is_graceful, cancelledBy, firedFirst,
          manualCalls, obs, ctrl_c, sigterm, unix>>

\* ---------------------------------------------------------------------
\* The readiness registry (lib.rs, StartedServices)
\* ---------------------------------------------------------------------

\* a thread that is in no call; a returned result stays readable until then
AtRest(t) == pc[t] \in {"idle", "returned", "responded"}

\* the answer of a /health request that has not been made
NoResponse == <<0, "">>

\* Iterator::all over the loaded values of a Vec of flags
AllLoaded(vec, mem) == \A i \in 1..Len(vec) : mem[vec[i]]

\* StartedServices::default(): an empty Vec behind a fresh Mutex
RegInit ==
    /\ external_service = [r \in Registries |-> <<>>]
    /\ lock = [r \in Registries |-> "free"]
    /\ flags = <<>>
    /\ issued = {}
    /\ handle = [h \in Handles |-> IF h = "h1" THEN 1 ELSE 0]
    /\ pc = [t \in Threads |-> "idle"]
    /\ treg = [t \in Threads |-> 0]
    /\ idx = [t \in Threads |-> 0]
    /\ ret = [t \in Threads |-> FALSE]
    /\ resp = [t \in Threads |-> NoResponse]

\* StartedServices::new() assigned to a value that was unset
NewServices(h) ==
    /\ handle[h] = 0
    /\ \E r \in Registries :
          /\ \A g \in Handles : handle[g] # r
          /\ r = 1 + Cardinality({g \in Handles : handle[g] # 0})
          /\ handle' = [handle EXCEPT ![h] = r]
    /\ UNCHANGED <<external_service, lock, flags, issued, pc, treg, idx, ret, resp>>
    /\ UNCHANGED shutVars
    /\ UNCHANGED osVars

\* CloneServices as a deep copy: the clone gets a registry of its own that
\* holds the flags registered so far
CloneServicesDeep(h, g) ==
    /\ handle[h] # 0
    /\ handle[g] = 0
    /\ \E r \in Registries :
          /\ \A k \in Handles : handle[k] # r
          /\ handle' = [handle EXCEPT ![g] = r]
          /\ external_service' =
                [external_service EXCEPT ![r] = external_service[handle[h]]]
    /\ UNCHANGED <<lock, flags, issued, pc, treg, idx, ret, resp>>
    /\ UNCHANGED shutVars
    /\ UNCHANGED osVars

\* #[derive(Clone)]: the clone holds the same Arc
CloneServices(h, g) ==
    /\ handle[h] # 0
    /\ handle[g] = 0
    /\ handle' = [handle EXCEPT ![g] = handle[h]]
    /\ UNCHANGED <<external_service, lock, flags, issued, pc, treg, idx, ret, resp>>
    /\ UNCHANGED shutVars
    /\ UNCHANGED osVars

\* NewServicePush with AtomicBool::new(true) in place of AtomicBool::default()
NewServicePushTrue(t, h) ==
    /\ AtRest(t)
    /\ handle[h] # 0
    /\ lock[handle[h]] = "free"
    /\ Len(flags) < MaxServices
    /\ flags' = Append(flags, TRUE)
    /\ external_service' =
          [external_service EXCEPT ![handle[h]] = Append(@, Len(flags) + 1)]
    /\ lock' = [lock EXCEPT ![handle[h]] = t]
    /\ pc' = [pc EXCEPT ![t] = "pushed"]
    /\ treg' = [treg EXCEPT ![t] = handle[h]]
    /\ idx' = [idx EXCEPT ![t] = Len(flags) + 1]
    /\ ret' = [ret EXCEPT ![t] = FALSE]
    /\ resp' = [resp EXCEPT ![t] = NoResponse]
    /\ UNCHANGED <<issued, handle>>
    /\ UNCHANGED shutVars
    /\ UNCHANGED osVars

\* NewServicePush that pushes without holding the Mutex
NewServicePushNoLock(t, h) ==
    /\ AtRest(t)
    /\ handle[h] # 0
    /\ Len(flags) < MaxServices
    /\ flags' = Append(flags, FALSE)
    /\ external_service' =
          [external_service EXCEPT ![handle[h]] = Append(@, Len(flags) + 1)]
    /\ issued' = issued \cup {Len(flags) + 1}
    /\ pc' = [pc EXCEPT ![t] = "idle"]
    /\ ret' = [ret EXCEPT ![t] = FALSE]
    /\ resp' = [resp EXCEPT ![t] = NoResponse]
    /\ UNCHANGED <<lock, treg, idx, handle>>
    /\ UNCHANGED shutVars
    /\ UNCHANGED osVars

\* new_service, up to the push: Arc::new(AtomicBool::default()), lock(), push
NewServicePush(t, h) ==
    /\ AtRest(t)
    /\ handle[h] # 0
    /\ lock[handle[h]] = "free"
    /\ Len(flags) < MaxServices
    /\ flags' = Append(flags, FALSE)
    /\ external_service' =
          [external_service EXCEPT ![handle[h]] = Append(@, Len(flags) + 1)]
    /\ lock' = [lock EXCEPT ![handle[h]] = t]
    /\ pc' = [pc EXCEPT ![t] = "pushed"]
    /\ treg' = [treg EXCEPT ![t] = handle[h]]
    /\ idx' = [idx EXCEPT ![t] = Len(flags) + 1]
    /\ ret' = [ret EXCEPT ![t] = FALSE]
    /\ resp' = [resp EXCEPT ![t] = NoResponse]
    /\ UNCHANGED <<issued, handle>>
    /\ UNCHANGED shutVars
    /\ UNCHANGED osVars

\* NewServiceReturn that leaks the guard (mem::forget): the Mutex stays locked
NewServiceReturnLeaks(t) ==
    /\ pc[t] = "pushed"
    /\ issued' = issued \cup {idx[t]}
    /\ pc' = [pc EXCEPT ![t] = "idle"]
    /\ treg' = [treg EXCEPT ![t] = 0]
    /\ idx' = [idx EXCEPT ![t] = 0]
    /\ UNCHANGED <<external_service, lock, flags, handle, ret, resp>>
    /\ UNCHANGED shutVars
    /\ UNCHANGED osVars

\* new_service, the rest: the guard is dropped and the Arc is returned
NewServiceReturn(t) ==
    /\ pc[t] = "pushed"
    /\ lock' = [lock EXCEPT ![treg[t]] = "free"]
    /\ issued' = issued \cup {idx[t]}
    /\ pc' = [pc EXCEPT ![t] = "idle"]
    /\ treg' = [treg EXCEPT ![t] = 0]
    /\ idx' = [idx EXCEPT ![t] = 0]
    /\ UNCHANGED <<external_service, flags, handle, ret, resp>>
    /\ UNCHANGED shutVars
    /\ UNCHANGED osVars

\* StoreTrue with fetch_xor(true, ..) in place of store(true, ..)
StoreToggle(mem, f) == [mem EXCEPT ![f] = ~mem[f]]

\* AtomicBool::store(true, ..) on flag f of the flags mem
StoreTrue(mem, f) == [mem EXCEPT ![f] = TRUE]

\* the holder of a returned flag sets it: service.store(true, ..)
MarkReady(f) ==
    /\ f \in issued
    /\ flags' = StoreTrue(flags, f)
    /\ UNCHANGED <<external_service, lock, issued, handle, pc, treg, idx, ret, resp>>
    /\ UNCHANGED shutVars
    /\ UNCHANGED osVars

\* HealthResponse with the two arms of the if exchanged
HealthResponseSwapped(b) ==
    IF b THEN <<503, "starting">> ELSE <<200, "healthy">>

\* what the /health handler answers for a result of all_started()
HealthResponse(b) ==
    IF b THEN <<200, "healthy">> ELSE <<503, "starting">>

\* all_started() has its result b: the guard is dropped and b is returned, to
\* the caller or to the /health handler, which answers at once
Finish(t, b) ==
    /\ lock' = [lock EXCEPT ![treg[t]] = "free"]
    /\ ret' = [ret EXCEPT ![t] = b]
    /\ resp' = [resp EXCEPT ![t] =
                  IF pc[t] = "health" THEN HealthResponse(b) ELSE NoResponse]
    /\ pc' = [pc EXCEPT ![t] = IF pc[t] = "health" THEN "responded" ELSE "returned"]
    /\ treg' = [treg EXCEPT ![t] = 0]
    /\ idx' = [idx EXCEPT ![t] = 0]

\* all_started(), called directly: the lock() that starts it
AllStartedLock(t, h) ==
    /\ AtRest(t)
    /\ handle[h] # 0
    /\ lock[handle[h]] = "free"
    /\ lock' = [lock EXCEPT ![handle[h]] = t]
    /\ pc' = [pc EXCEPT ![t] = "iter"]
    /\ treg' = [treg EXCEPT ![t] = handle[h]]
    /\ idx' = [idx EXCEPT ![t] = 1]
    /\ ret' = [ret EXCEPT ![t] = FALSE]
    /\ resp' = [resp EXCEPT ![t] = NoResponse]
    /\ UNCHANGED <<external_service, flags, issued, handle>>
    /\ UNCHANGED shutVars
    /\ UNCHANGED osVars

\* GET /health: the handler calls all_started() on its clone of the registry
HealthRequest(t, h) ==
    /\ AtRest(t)
    /\ handle[h] # 0
    /\ lock[handle[h]] = "free"
    /\ lock' = [lock EXCEPT ![handle[h]] = t]
    /\ pc' = [pc EXCEPT ![t] = "health"]
    /\ treg' = [treg EXCEPT ![t] = handle[h]]
    /\ idx' = [idx EXCEPT ![t] = 1]
    /\ ret' = [ret EXCEPT ![t] = FALSE]
    /\ resp' = [resp EXCEPT ![t] = NoResponse]
    /\ UNCHANGED <<external_service, flags, issued, handle>>
    /\ UNCHANGED shutVars
    /\ UNCHANGED osVars

\* AllStartedStep with Iterator::any in place of Iterator::all: a true flag
\* ends the iteration with true, the end of the Vec gives false
AllStartedStepAny(t) ==
    /\ pc[t] \in {"iter", "health"}
    /\ IF idx[t] > Len(external_service[treg[t]])
          THEN Finish(t, FALSE)
          ELSE IF flags[external_service[treg[t]][idx[t]]]
                  THEN Finish(t, TRUE)
                  ELSE /\ idx' = [idx EXCEPT ![t] = idx[t] + 1]
                       /\ UNCHANGED <<lock, pc, treg, ret, resp>>
    /\ UNCHANGED <<external_service, flags, issued, handle>>
    /\ UNCHANGED shutVars
    /\ UNCHANGED osVars

\* AllStartedStep with swap(false, ..) in place of load(..): the flag is read
\* and cleared
AllStartedStepSwap(t) ==
    /\ pc[t] \in {"iter", "health"}
    /\ IF idx[t] > Len(external_service[treg[t]])
          THEN Finish(t, TRUE) /\ UNCHANGED flags
          ELSE /\ flags' = [flags EXCEPT ![external_service[treg[t]][idx[t]]] = FALSE]
               /\ IF flags[external_service[treg[t]][idx[t]]]
                     THEN /\ idx' = [idx EXCEPT ![t] = idx[t] + 1]
                          /\ UNCHANGED <<lock, pc, treg, ret, resp>>
                     ELSE Finish(t, FALSE)
    /\ UNCHANGED <<external_service, issued, handle>>
    /\ UNCHANGED shutVars
    /\ UNCHANGED osVars

\* AllStartedStep with drain(..) in place of iter(): a flag that was looked at
\* leaves the Vec
AllStartedStepDrain(t) ==
    /\ pc[t] \in {"iter", "health"}
    /\ IF external_service[treg[t]] = <<>>
          THEN Finish(t, TRUE) /\ UNCHANGED external_service
          ELSE /\ external_service' =
                     [external_service EXCEPT ![treg[t]] = Tail(@)]
               /\ IF flags[Head(external_service[treg[t]])]
                     THEN UNCHANGED <<lock, pc, treg, idx, ret, resp>>
                     ELSE Finish(t, FALSE)
    /\ UNCHANGED <<flags, issued, handle>>
    /\ UNCHANGED shutVars
    /\ UNCHANGED osVars

\* one step of .iter().all(|service| service.load(..)): the iterator is at its
\* end and all() is true, or the next flag is loaded; a false flag ends all()
AllStartedStep(t) ==
    /\ pc[t] \in {"iter", "health"}
    /\ IF idx[t] > Len(external_service[treg[t]])
          THEN Finish(t, TRUE)
          ELSE IF flags[external_service[treg[t]][idx[t]]]
                  THEN /\ idx' = [idx EXCEPT ![t] = idx[t] + 1]
                       /\ UNCHANGED <<lock, pc, treg, ret, resp>>
                  ELSE Finish(t, FALSE)
    /\ UNCHANGED <<external_service, flags, issued, handle>>
    /\ UNCHANGED shutVars
    /\ UNCHANGED osVars

RegNext ==
    \/ \E h \in Handles : NewServices(h)
    \/ \E h, g \in Handles : CloneServices(h, g)
    \/ \E t \in Threads, h \in Handles : NewServicePush(t, h)
    \/ \E t \in Threads : NewServiceReturn(t)
    \/ \E f \in 1..MaxServices : MarkReady(f)
    \/ \E t \in Threads, h \in Handles : AllStartedLock(t, h)
    \/ \E t \in Threads, h \in Handles : HealthRequest(t, h)
    \/ \E t \in Threads : AllStartedStep(t)

\* ---------------------------------------------------------------------
\* The shutdown task (lib.rs, spawn_shutdown_task)
\* ---------------------------------------------------------------------

\* the state spawn_shutdown_task returns in: a fresh token, the flag false,
\* the task spawned and not yet polled
ShutInit ==
    /\ sig = "pending"
    /\ lpc = "select"
    /\ branch = "none"
    /\ cancelled = FALSE
    /\ is_graceful = FALSE
    /\ cancelledBy = "none"
    /\ firedFirst = FALSE
    /\ manualCalls = 0
    /\ obs = [h \in Holders |-> "unknown"]

\* the event behind shutdown_signal happens (Ctrl+C, SIGTERM, a channel
\* send): the future will be Ready at its next poll
SignalFires ==
    /\ sig = "pending"
    /\ sig' = "ready"
    /\ firedFirst' = (manualCalls = 0)
    /\ UNCHANGED <<lpc, branch, cancelled, is_graceful, cancelledBy, manualCalls, obs>>
    /\ UNCHANGED regVars
    /\ UNCHANGED osVars

\* TokenCancel on a token that is a toggle, not a latch: a call on a
\* cancelled token makes it not cancelled again
TokenCancelToggles(who) ==
    /\ cancelled' = ~cancelled
    /\ cancelledBy' = IF cancelled THEN cancelledBy ELSE who

\* the effect of CancellationToken::cancel() on the token: the first call
\* cancels it, a later call finds it cancelled and does nothing
TokenCancel(who) ==
    /\ cancelled' = TRUE
    /\ cancelledBy' = IF cancelled THEN cancelledBy ELSE who

\* select!, first arm: shutdown_signal is Ready when polled. The select! has
\* no `biased;`, so when both arms are ready either one may be taken
ListenerSelectSignal ==
    /\ lpc = "select"
    /\ sig = "ready"
    /\ branch' = "signal"
    /\ lpc' = "store"
    /\ UNCHANGED <<sig, cancelled, is_graceful, cancelledBy, firedFirst, manualCalls, obs>>
    /\ UNCHANGED regVars
    /\ UNCHANGED osVars

\* ListenerStore with the store left out
ListenerStoreSkipped ==
    /\ lpc = "store"
    /\ lpc' = "cancel"
    /\ UNCHANGED <<sig, branch, cancelled, is_graceful, cancelledBy, firedFirst,
                   manualCalls, obs>>
    /\ UNCHANGED regVars
    /\ UNCHANGED osVars

\* ListenerStore with the two statements of the arm in the other order: this
\* step is the cancel(), and the flag is not yet stored when the token is
\* cancelled
ListenerStoreAfterCancel ==
    /\ lpc = "store"
    /\ TokenCancel("listener")
    /\ lpc' = "cancel"
    /\ UNCHANGED <<sig, branch, is_graceful, firedFirst, manualCalls, obs>>
    /\ UNCHANGED regVars
    /\ UNCHANGED osVars

\* is_graceful.store(true, Ordering::Relaxed)
ListenerStore ==
    /\ lpc = "store"
    /\ is_graceful' = TRUE
    /\ lpc' = "cancel"
    /\ UNCHANGED <<sig, branch, cancelled, cancelledBy, firedFirst, manualCalls, obs>>
    /\ UNCHANGED regVars
    /\ UNCHANGED osVars

\* ListenerCancel with the cancel() left out: the task ends after the store
ListenerCancelSkipped ==
    /\ lpc = "cancel"
    /\ lpc' = "done"
    /\ UNCHANGED <<sig, branch, cancelled, is_graceful, cancelledBy, firedFirst,
                   manualCalls, obs>>
    /\ UNCHANGED regVars
    /\ UNCHANGED osVars

\* ListenerCancel with the select! in a loop: the task waits again
ListenerCancelLoops ==
    /\ lpc = "cancel"
    /\ TokenCancel("listener")
    /\ lpc' = "select"
    /\ UNCHANGED <<sig, branch, is_graceful, firedFirst, manualCalls, obs>>
    /\ UNCHANGED regVars
    /\ UNCHANGED osVars

\* task_token.cancel(), after which the task ends
ListenerCancel ==
    /\ lpc = "cancel"
    /\ TokenCancel("listener")
    /\ lpc' = "done"
    /\ UNCHANGED <<sig, branch, is_graceful, firedFirst, manualCalls, obs>>
    /\ UNCHANGED regVars
    /\ UNCHANGED osVars

\* ListenerSelectCancelled with the body of the first arm copied into the
\* second: the flag is stored in the cancelled arm too
ListenerSelectCancelledStores ==
    /\ lpc = "select"
    /\ cancelled
    /\ branch' = "cancelled"
    /\ is_graceful' = TRUE
    /\ lpc' = "done"
    /\ UNCHANGED <<sig, cancelled, cancelledBy, firedFirst, manualCalls, obs>>
    /\ UNCHANGED regVars
    /\ UNCHANGED osVars

\* ListenerSelectCancelled falling through into the first arm's body
ListenerSelectCancelledFallsThrough ==
    /\ lpc = "select"
    /\ cancelled
    /\ branch' = "cancelled"
    /\ lpc' = "store"
    /\ UNCHANGED <<sig, cancelled, is_graceful, cancelledBy, firedFirst, manualCalls, obs>>
    /\ UNCHANGED regVars
    /\ UNCHANGED osVars

\* select!, second arm: task_token.cancelled() is Ready when polled; the arm
\* is empty and the task ends
ListenerSelectCancelled ==
    /\ lpc = "select"
    /\ cancelled
    /\ branch' = "cancelled"
    /\ lpc' = "done"
    /\ UNCHANGED <<sig, cancelled, is_graceful, cancelledBy, firedFirst, manualCalls, obs>>
    /\ UNCHANGED regVars
    /\ UNCHANGED osVars

\* Cancel that also marks the shutdown as not graceful
CancelClearsGraceful(h) ==
    /\ manualCalls < MaxCancels
    /\ manualCalls' = manualCalls + 1
    /\ TokenCancel("manual")
    /\ is_graceful' = FALSE
    /\ UNCHANGED <<sig, lpc, branch, firedFirst, obs>>
    /\ UNCHANGED regVars
    /\ UNCHANGED osVars

\* a holder of the returned token calls cancel()
Cancel(h) ==
    /\ manualCalls < MaxCancels
    /\ manualCalls' = manualCalls + 1
    /\ TokenCancel("manual")
    /\ UNCHANGED <<sig, lpc, branch, is_graceful, firedFirst, obs>>
    /\ UNCHANGED regVars
    /\ UNCHANGED osVars

\* a holder of the returned token calls is_cancelled()
IsCancelled(h) ==
    /\ obs' = [obs EXCEPT ![h] = IF cancelled THEN "yes" ELSE "no"]
    /\ UNCHANGED <<sig, lpc, branch, cancelled, is_graceful, cancelledBy, firedFirst,
                   manualCalls>>
    /\ UNCHANGED regVars
    /\ UNCHANGED osVars

\* the steps of the spawned task
ListenerStep ==
    \/ ListenerSelectSignal
    \/ ListenerStore
    \/ ListenerCancel
    \/ ListenerSelectCancelled

ShutNext ==
    \/ SignalFires
    \/ ListenerSelectSignal
    \/ ListenerStore
    \/ ListenerCancel
    \/ ListenerSelectCancelled
    \/ \E h \in Holders : Cancel(h)
    \/ \E h \in Holders : IsCancelled(h)

\* ---------------------------------------------------------------------
\* The default shutdown signal (lib.rs, default_shutdown_signal)
\* ---------------------------------------------------------------------

\* no signal has been delivered; the target is unix or it is not
OsInit ==
    /\ ctrl_c = FALSE
    /\ sigterm = FALSE
    /\ unix \in BOOLEAN

\* DefaultSignalReady with join! in place of select!: both futures must end
DefaultSignalReadyBoth(c, s, u) == c /\ u /\ s

\* whether default_shutdown_signal() is Ready when polled: its select! ends
\* with the first of ctrl_c and terminate, and terminate is the SIGTERM
\* stream on unix and std::future::pending() elsewhere
DefaultSignalReady(c, s, u) == c \/ (u /\ s)

\* the state of a shutdown_signal that is default_shutdown_signal() after a
\* delivery that leaves Ctrl+C at c and SIGTERM at s
SignalAfter(c, s) ==
    /\ sig' = IF DefaultSignalReady(c, s, unix) THEN "ready" ELSE "pending"
    /\ firedFirst' = IF sig = "pending" /\ DefaultSignalReady(c, s, unix)
                        THEN manualCalls = 0
                        ELSE firedFirst

\* Ctrl+C is pressed
CtrlC ==
    /\ ~ctrl_c
    /\ ctrl_c' = TRUE
    /\ SignalAfter(TRUE, sigterm)
    /\ UNCHANGED <<sigterm, unix>>
    /\ UNCHANGED <<lpc, branch, cancelled, is_graceful, cancelledBy, manualCalls, obs>>
    /\ UNCHANGED regVars

\* the process is asked to terminate (SIGTERM on unix)
Sigterm ==
    /\ ~sigterm
    /\ sigterm' = TRUE
    /\ SignalAfter(ctrl_c, TRUE)
    /\ UNCHANGED <<ctrl_c, unix>>
    /\ UNCHANGED <<lpc, branch, cancelled, is_graceful, cancelledBy, manualCalls, obs>>
    /\ UNCHANGED regVars

\* the shutdown task with default_shutdown_signal() as its shutdown_signal
SignalNext ==
    \/ CtrlC
    \/ Sigterm
    \/ ListenerSelectSignal
    \/ ListenerStore
    \/ ListenerCancel
    \/ ListenerSelectCancelled
    \/ \E h \in Holders : Cancel(h)
    \/ \E h \in Holders : IsCancelled(h)

Init == RegInit /\ ShutInit /\ OsInit

Next == RegNext

Spec == Init /\ [][Next]_vars

\* a step of a thread that holds the Mutex of a registry
HolderStep(t) == NewServiceReturn(t) \/ AllStartedStep(t)

\* the registry with every thread that holds a Mutex scheduled fairly: the
\* critical sections hold no await and no blocking call
FairSpec == Init /\ [][Next]_vars /\ \A t \in Threads : WF_vars(HolderStep(t))

\* the shutdown task alone
ShutdownSpec == Init /\ [][ShutNext]_vars

\* the shutdown task fed by default_shutdown_signal()
SignalSpec == Init /\ [][SignalNext]_vars

\* tokio polls a woken task: the spawned task is scheduled fairly
FairShutdownSpec == Init /\ [][ShutNext]_vars /\ WF_vars(ListenerStep)

\* ---------------------------------------------------------------------
\* Properties of the readiness registry
\* ---------------------------------------------------------------------

\* the step in which thread t's call of all_started() gets its result
Decides(t) ==
    /\ pc[t] \in {"iter", "health"}
    /\ pc'[t] \in {"returned", "responded"}

\* the flags a registry holds, in its order
Registered(r) == external_service[r]

\* C1: for any number of registered services, all_started() returns true if
\* and only if every flag registered with that registry is true at the instant
\* the call gets its result; with no flag registered it returns true.
C1_AllStartedIff ==
    [][\A t \in Threads :
          Decides(t) => (ret'[t] = AllLoaded(external_service'[treg[t]], flags'))]_vars

\* C1, the case: three services registered with one registry, a call that
\* returned false while one was unmarked and a later call that returned true
C1_Witness ==
    \E t, u \in Threads :
        /\ pc[t] = "returned" /\ ret[t] = FALSE
        /\ pc[u] = "returned" /\ ret[u] = TRUE
        /\ Len(Registered(1)) = 3

\* C8: a readiness flag is created false, never goes from true to false (so
\* it changes at most once), and no step of new_service() or all_started()
\* changes the value of a flag that exists.
C8_FlagsMonotone ==
    [][/\ \A f \in 1..Len(flags) : flags[f] => flags'[f]
       /\ Len(flags') > Len(flags) => ~flags'[Len(flags')]
       /\ (pc' # pc \/ external_service' # external_service)
             => \A f \in 1..Len(flags) : flags'[f] = flags[f]]_vars

\* C8, the case: a flag was set to true, and calls of all_started() and
\* new_service() were made afterwards
C8_Witness ==
    /\ Len(flags) = 3
    /\ flags[1] /\ ~flags[3]
    /\ \E t \in Threads : pc[t] = "returned" /\ ret[t] = FALSE

\* the flags held by all registries together
RECURSIVE TotalRegistered(_)
TotalRegistered(rs) ==
    IF rs = {} THEN 0
    ELSE LET r == CHOOSE x \in rs : TRUE
         IN  Len(Registered(r)) + TotalRegistered(rs \ {r})

\* s is a prefix of t
IsPrefix(s, t) == Len(s) <= Len(t) /\ \A i \in 1..Len(s) : s[i] = t[i]

\* C9: the flag collection is append-only: the registries hold as many flags
\* as new_service() calls were made, each flag once; a step only ever appends
\* to a collection, and the steps of all_started() leave it unchanged.
C9_AppendOnly ==
    /\ [](/\ TotalRegistered(Registries) = Len(flags)
          /\ \A f \in 1..Len(flags) :
                Cardinality({<<r, i>> \in Registries \X (1..Len(flags)) :
                                i <= Len(Registered(r)) /\ Registered(r)[i] = f}) = 1)
    /\ [][/\ \A r \in Registries : IsPrefix(Registered(r), Registered(r)')
          /\ \A t \in Threads :
                pc[t] \in {"iter", "health"} /\ (pc'[t] # pc[t] \/ idx'[t] # idx[t])
                   => external_service' = external_service]_vars

\* C9, the case: new_service() was called three times and all_started()
\* went through the whole collection
C9_Witness ==
    /\ Len(Registered(1)) = 3
    /\ \E t \in Threads : pc[t] = "returned" /\ ret[t] = TRUE

\* C10: the /health handler answers 200 "healthy" exactly when its call of
\* all_started() is true, that is when every registered flag is true at the
\* instant the call gets its result, and 503 "starting" exactly when a
\* registered flag is false at that instant.
C10_HealthAnswer ==
    [][\A t \in Threads :
          (Decides(t) /\ pc[t] = "health")
             => /\ pc'[t] = "responded"
                /\ AllLoaded(external_service'[treg[t]], flags') => resp'[t] = <<200, "healthy">>
                /\ ~AllLoaded(external_service'[treg[t]], flags') => resp'[t] = <<503, "starting">>]_vars

\* C10, the case: one request answered 503 while a service was starting and
\* another answered 200 once all had started
C10_Witness ==
    \E t, u \in Threads :
        /\ pc[t] = "responded" /\ resp[t] = <<503, "starting">>
        /\ pc[u] = "responded" /\ resp[u] = <<200, "healthy">>
        /\ Len(Registered(1)) >= 2

\* ---------------------------------------------------------------------
\* Properties of the shutdown task
\* ---------------------------------------------------------------------

\* the spawned task has finished
ListenerDone == lpc = "done"

\* C2, as claimed: if the external trigger fires before any manual cancel(),
\* then once the token is cancelled and the task has finished the graceful
\* flag is true.
C2_FiredFirstGraceful ==
    (firedFirst /\ cancelled /\ ListenerDone) => is_graceful

\* C2, amended: a poll of the task that comes before any manual cancel() and
\* ends its wait finds the trigger ready and takes the trigger arm; and when
\* the task took the trigger arm, the graceful flag is true once the token is
\* cancelled and the task has finished.
C2_ResumedFirstGraceful ==
    /\ []((ListenerDone /\ cancelled /\ branch = "signal") => is_graceful)
    /\ [][(lpc = "select" /\ lpc' # "select" /\ manualCalls = 0)
             => (sig = "ready" /\ branch' = "signal")]_vars

\* C2, the case: the trigger fired before any manual cancel(), the task took
\* the trigger arm and has finished
C2_Witness ==
    firedFirst /\ ListenerDone /\ branch = "signal" /\ cancelled /\ is_graceful

\* C3: while the external trigger has not fired, the graceful flag is false,
\* a manual cancel() has cancelled the token, and a task that has finished
\* left through the cancelled arm without a step of the trigger arm.
C3_ManualOnlyNotGraceful ==
    sig = "pending" =>
        /\ ~is_graceful
        /\ manualCalls > 0 => cancelled
        /\ lpc \in {"select", "done"}
        /\ ListenerDone => (branch = "cancelled" /\ cancelled /\ cancelledBy = "manual")

\* C3, the case: cancel() was called, the trigger never fired, the task has
\* left through the cancelled arm
C3_Witness ==
    /\ sig = "pending" /\ manualCalls > 0
    /\ ListenerDone /\ branch = "cancelled" /\ cancelled /\ ~is_graceful

\* both the external trigger and a manual cancel() occurred, and the task
\* has finished
BothOccurred == sig = "ready" /\ manualCalls > 0 /\ ListenerDone

\* C4, as claimed: when both the trigger and a manual cancel() occur, the
\* graceful flag ends up true exactly when the trigger path was the one that
\* cancelled the token, and false when the manual cancel() cancelled it.
C4_GracefulIffListenerCancelled ==
    BothOccurred => (is_graceful = (cancelledBy = "listener"))

\* C4, amended: when both occur, the graceful flag ends up true exactly when
\* the task took the trigger arm of its select; it is true whenever the
\* trigger path was the one that cancelled the token, and false whenever the
\* task left through the cancelled arm.
C4_GracefulIffSignalArm ==
    BothOccurred =>
        /\ is_graceful = (branch = "signal")
        /\ cancelledBy = "listener" => is_graceful
        /\ branch = "cancelled" => (~is_graceful /\ cancelledBy = "manual")

\* C4, the case: both occurred and the trigger path cancelled the token
C4_Witness ==
    BothOccurred /\ cancelledBy = "listener" /\ is_graceful

\* C5: under fair scheduling of the task, once the shutdown signal is ready
\* the token is eventually cancelled and the task has finished, and once the
\* token is cancelled by anyone the task eventually has finished.
C5_TaskCompletes ==
    /\ (sig = "ready") ~> (cancelled /\ ListenerDone)
    /\ cancelled ~> ListenerDone

\* C5, the case: the token was cancelled by another task and the shutdown
\* task has finished
C5_Witness ==
    ListenerDone /\ cancelled /\ cancelledBy = "manual" /\ branch = "cancelled"

\* C6: once the token is cancelled it stays cancelled, every is_cancelled()
\* of every holder from then on returns true, and a cancel() call made on a
\* cancelled token (by a holder or by the task) leaves the token and the
\* graceful flag as they were.
C6_CancelPermanent ==
    [][cancelled =>
          /\ cancelled'
          /\ \A h \in Holders : obs'[h] # obs[h] => obs'[h] = "yes"
          /\ (manualCalls' # manualCalls \/ (lpc = "cancel" /\ lpc' = "done"))
                => /\ cancelledBy' = cancelledBy
                   /\ is_graceful' = is_graceful]_vars

\* C6, the case: cancel() was called again on a cancelled token whose
\* graceful flag was set, and both holders have looked at the token since
C6_Witness ==
    /\ cancelled /\ manualCalls >= 2 /\ is_graceful /\ ListenerDone
    /\ \A h \in Holders : obs[h] = "yes"

\* the position of the task, in the order of its code
Rank(p) ==
    CASE p = "select" -> 0
      [] p = "store" -> 1
      [] p = "cancel" -> 2
      [] p = "done" -> 3

\* C7: the graceful flag starts false; it is written by one step only, the
\* store of the trigger arm, which the task takes at most once because it
\* never goes back in its code; and once true the flag stays true.
C7_GracefulOnce ==
    /\ ~is_graceful
    /\ [][/\ is_graceful => is_graceful'
          /\ Rank(lpc') >= Rank(lpc)
          /\ is_graceful' # is_graceful => (lpc = "store" /\ lpc' = "cancel")]_vars

\* C7, the case: the flag was set, and the trigger and manual cancel() calls
\* followed
C7_Witness ==
    is_graceful /\ manualCalls >= 2 /\ cancelledBy = "listener" /\ ListenerDone

\* C11: cancellation is a broadcast: once one holder's is_cancelled() has
\* returned true, no later is_cancelled() of any holder returns false.
C11_Broadcast ==
    [][(\E g \in Holders : obs[g] = "yes")
          => \A h \in Holders : obs'[h] # obs[h] => obs'[h] = "yes"]_vars

\* C11, the case: one holder looked before the single cancel() and saw the
\* token not cancelled, the other looked after it and saw it cancelled
C11_Witness ==
    /\ manualCalls = 1 /\ cancelledBy = "manual" /\ lpc = "select"
    /\ obs["a"] = "no" /\ obs["b"] = "yes"

\* C15: the task takes at most one arm of its select: the arm it took never
\* changes, the cancelled arm ends the task at once, and a task that has
\* finished stays finished and writes neither the graceful flag nor the
\* token (the token then changes by a manual cancel() only).
C15_ResumesOnce ==
    /\ [](branch = "cancelled" => ListenerDone)
    /\ [][/\ branch # "none" => branch' = branch
          /\ ListenerDone =>
                /\ lpc' = "done"
                /\ is_graceful' = is_graceful
                /\ cancelled' # cancelled => manualCalls' # manualCalls]_vars

\* C15, the case: the task took the trigger arm, cancelled the token and
\* has finished, and a manual cancel() followed
C15_Witness ==
    /\ ListenerDone /\ branch = "signal" /\ cancelledBy = "listener"
    /\ manualCalls = 1 /\ is_graceful

\* C17: the trigger arm stores the graceful flag before it cancels the
\* token: in every state in which the token is cancelled and no holder has
\* called cancel(), the graceful flag is true.
C17_StoreBeforeCancel ==
    (cancelled /\ manualCalls = 0) => (is_graceful /\ cancelledBy = "listener")

\* C17, the case: the token was cancelled by the trigger arm alone and a
\* holder has seen it cancelled
C17_Witness ==
    /\ cancelled /\ manualCalls = 0 /\ is_graceful
    /\ \E h \in Holders : obs[h] = "yes"

\* ---------------------------------------------------------------------
\* Further properties of the readiness registry
\* ---------------------------------------------------------------------

\* a thread inside new_service() or all_started(), between lock() and the
\* drop of the guard
InCall(t) == pc[t] \in {"pushed", "iter", "health"}

\* the flags of registry r as a set
FlagsOf(r) == {Registered(r)[i] : i \in 1..Len(Registered(r))}

\* every flag registry r holds is true
AllReady(r) == AllLoaded(Registered(r), flags)

C13_NoBlocking ==
    /\ [](\A r \in Registries :
             lock[r] # "free" =>
                /\ InCall(lock[r]) /\ treg[lock[r]] = r
                /\ ENABLED HolderStep(lock[r]))
    /\ [](\A t \in Threads : InCall(t) => lock[treg[t]] = t)
    /\ [](\A f \in issued : ENABLED MarkReady(f))
    /\ \A t \in Threads : InCall(t) ~> AtRest(t)
    /\ \A r \in Registries : (lock[r] # "free") ~> (lock[r] = "free")

\* C13, the case: one thread is inside all_started(), the other inside
\* new_service() on another registry, and a flag is being marked
C13_Witness ==
    /\ pc["t1"] = "iter" /\ idx["t1"] = 2 /\ pc["t2"] = "pushed"
    /\ \E f \in issued : flags[f]

\* C14: new_service() creates its flag false and appends it to the registry;
\* a call of all_started() that gets its result while a returned flag of its
\* registry is false returns false.
C14_NewFlagHoldsBack ==
    [][/\ Len(flags') > Len(flags) =>
             /\ ~flags'[Len(flags')]
             /\ \E r \in Registries :
                   external_service'[r] = Append(Registered(r), Len(flags'))
       /\ \A t \in Threads :
             (Decides(t) /\ \E f \in FlagsOf(treg[t]) \cap issued : ~flags[f])
                => ret'[t] = FALSE]_vars

\* C14, the case: all_started() returned true, then a service was registered
\* with the same registry and not yet marked, and all_started() returned false
C14_Witness ==
    /\ handle["h2"] = 0
    /\ pc["t1"] = "returned" /\ ret["t1"] = TRUE
    /\ pc["t2"] = "returned" /\ ret["t2"] = FALSE
    /\ \E f \in issued : ~flags[f]

\* C18: readiness is stable: from a state in which every flag of a registry
\* is true, a step that registers nothing with it leaves every flag of it
\* true, and a call of all_started() on it that gets its result returns true.
C18_ReadinessStable ==
    [][\A r \in Registries :
          (AllReady(r) /\ Len(external_service'[r]) = Len(Registered(r)))
             => /\ AllLoaded(external_service'[r], flags')
                /\ \A t \in Threads :
                      (Decides(t) /\ treg[t] = r) => ret'[t] = TRUE]_vars

\* C18, the case: two calls of all_started() returned true on a registry of
\* two ready services
C18_Witness ==
    /\ handle["h2"] = 0 /\ Len(flags) = 2 /\ flags[1] /\ flags[2]
    /\ \A t \in Threads : pc[t] = "returned" /\ ret[t] = TRUE

\* C19: all_started() is atomic with respect to registration: two threads
\* are never inside calls on one registry, the Vec of a registry does not
\* change while a call of all_started() on it is under way, and a call that
\* returns true has gone through the whole Vec and loaded true from each flag.
C19_AtomicRegistration ==
    /\ [](\A t, u \in Threads : (t # u /\ InCall(t) /\ InCall(u)) => treg[t] # treg[u])
    /\ [][\A t \in Threads :
             pc[t] \in {"iter", "health"} =>
                /\ external_service'[treg[t]] = Registered(treg[t])
                /\ (Decides(t) /\ ret'[t]) =>
                      /\ idx[t] > Len(Registered(treg[t]))
                      /\ AllReady(treg[t])]_vars

\* C19, the case: a call of all_started() is half way through the Vec while
\* the other thread has a registration to make
C19_Witness ==
    /\ handle["h2"] = 0 /\ Len(flags) = 2
    /\ pc["t1"] = "iter" /\ idx["t1"] = 2 /\ pc["t2"] = "idle"

\* C20: the clones of a StartedServices share one registry and a fresh
\* StartedServices::new() shares nothing: a value that comes into being is
\* either an alias of an existing value's registry or has an empty registry
\* no other value refers to; two values of different registries have no flag
\* in common; and a call of all_started() returns true only if every flag
\* of its registry, registered through whichever value, is true.
C20_ClonesShare ==
    /\ [](\A h, g \in Handles :
             (handle[h] # 0 /\ handle[g] # 0 /\ handle[h] # handle[g])
                => FlagsOf(handle[h]) \cap FlagsOf(handle[g]) = {})
    /\ [][/\ \A g \in Handles :
                (handle[g] = 0 /\ handle'[g] # 0) =>
                   \/ \E h \in Handles \ {g} : handle[h] = handle'[g]
                   \/ /\ \A h \in Handles \ {g} : handle[h] # handle'[g]
                      /\ external_service'[handle'[g]] = <<>>
          /\ \A t \in Threads :
                (Decides(t) /\ ret'[t]) => AllReady(treg[t])]_vars

\* C20, the case: the value moved into the /health route is a clone, two
\* services are registered and a request was answered 503
C20_Witness ==
    /\ handle["h2"] = handle["h1"] /\ Len(Registered(1)) = 2
    /\ \E t \in Threads : pc[t] = "responded" /\ resp[t] = <<503, "starting">>

\* ---------------------------------------------------------------------
\* Properties of the default shutdown signal
\* ---------------------------------------------------------------------

\* C16: default_shutdown_signal() is complete exactly when Ctrl+C or, on
\* unix, SIGTERM has been received: it is complete from the first of them on
\* and not before, and on other targets Ctrl+C alone completes it.
C16_DefaultSignal ==
    /\ (sig = "ready") = (ctrl_c \/ (unix /\ sigterm))
    /\ ~unix => ((sig = "ready") = ctrl_c)
    /\ (~ctrl_c /\ ~sigterm) => (sig = "pending" /\ lpc \in {"select", "done"})

\* C16, the case: on unix SIGTERM arrived without Ctrl+C, the signal
\* completed and the task took its trigger arm
C16_Witness ==
    unix /\ sigterm /\ ~ctrl_c /\ sig = "ready" /\ branch = "signal" /\ ListenerDone

====
